---- MODULE Spec2Model ----
(***************************************************************************)
(* The retrieval-augmented indexing pipeline of the insurance policy        *)
(* decoder: segment_text_into_clauses (clause_detector.py),                 *)
(* get_rag_collection (chroma_helper.py), query_rag_store (rag_store.py)    *)
(* and the page renders of app.py that drive them.                          *)
(*                                                                          *)
(* Spec: script runs of two sessions, one after the other.                  *)
(* SpecRace: the same runs, interleaved or not, on uploaded documents.      *)
(* SpecSegment: the segmenter on every small document.                      *)
(*                                                                          *)
(* Strings are sequences of tokens, so that an f-string is a concatenation  *)
(* (\o).  An optional attribute is <<>> (None or absent) or <<x>>.          *)
(* The embedding provider and the vector backend are outside the            *)
(* repository: every outcome they can produce is an input chosen with \E.   *)
(***************************************************************************)
EXTENDS Integers, Sequences, FiniteSets, TLC

(* ------------------------------ bounds --------------------------------- *)

\* Clause lists span at most this many embedding chunks.
MaxChunks == 2
\* Clauses the modelled documents carry per page.
PerPage == 3
\* Pages of a document handed to the segmenter.
MaxPages == 2
\* Characters of a document handed to the segmenter, all pages together.
MaxChars == 6

(* ------------------------- program constants --------------------------- *)

batch_size == 50
max_retries == 3

Min(a, b) == IF a < b THEN a ELSE b
Max(S) == CHOOSE x \in S : \A y \in S : y <= x

(* ------------------------------ sessions ------------------------------- *)

\* Two browser sessions of the one Streamlit process.  chromadb.Client() is
\* the process-wide in-memory store and the collection name is fixed, so
\* both sessions reach the same collection.
Sessions == {"s1", "s2"}

DocOf(s) == IF s = "s1" THEN "A" ELSE "B"

\* The clause records the segmenter hands over: clause_id 'p<page>_c<seq>',
\* seq restarting on every page; the text names its document and position.
Clause(d, n) ==
    [clause_id |-> "p" \o ToString(((n - 1) \div PerPage) + 1)
                       \o "_c" \o ToString(((n - 1) % PerPage) + 1),
     page_num  |-> ((n - 1) \div PerPage) + 1,
     text      |-> d \o ToString(n)]

Doc(d, len) == [n \in 1..len |-> Clause(d, n)]

\* Lengths of the clause lists: none, a few, and the lengths around the last
\* chunk boundary.
ClauseCounts ==
    {0, 2, (MaxChunks - 1) * batch_size, (MaxChunks - 1) * batch_size + 1}

(* ----------------------------- exceptions ------------------------------ *)

Exc(cls, msg) == [cls |-> cls, msg |-> msg]
NoExc == Exc("none", <<>>)

\* get_gemini_client_for_rag: the key is read from the environment.
get_gemini_client_for_rag(api_key) ==
    IF ~api_key
    THEN [ok |-> FALSE,
          exc |-> Exc("ValueError",
                      <<"GEMINI_API_KEY not found in environment variables.">>)]
    ELSE [ok |-> TRUE, exc |-> NoExc]

(* --------------------------- DummyCollection --------------------------- *)

DefaultFailureReason ==
    <<"RAG index is empty or failed to initialize (No clauses processed).">>

NoHandle == [kind |-> "none", failure_reason |-> <<>>]
RealCollection == [kind |-> "collection", failure_reason |-> <<>>]
DummyCollection(failure_reason) ==
    [kind |-> "dummy", failure_reason |-> failure_reason]

DummyCountOne(h) == 1
DummyCount(h) == 0

DummyQueryDefault(h) == [documents |-> << <<DefaultFailureReason>> >>]
DummyQuery(h) == [documents |-> << <<h.failure_reason>> >>]

(* ------------------ extract_embeddings_from_response -------------------- *)

Vec(t) == [vec_of |-> t]

\* One element of response.embeddings: the attribute it exposes.
Item(attr, v) == [attr |-> attr, vec |-> v]

Response(embedding, values, embeddings) ==
    [embedding |-> embedding, values |-> values, embeddings |-> embeddings]

ExtractFailed(inner) ==
    [ok  |-> FALSE, val |-> <<>>,
     exc |-> Exc("AttributeError",
                 <<"Failed to extract embeddings due to response structure: ">>
                     \o inner)]

extract_embeddings_from_response(response) ==
    IF response.embedding # <<>>
    THEN [ok |-> TRUE, val |-> response.embedding[1], exc |-> NoExc]
    ELSE IF response.values # <<>>
    THEN [ok |-> TRUE, val |-> response.values[1], exc |-> NoExc]
    ELSE IF response.embeddings # <<>>
    THEN LET es == response.embeddings[1] IN
         IF \E j \in 1..Len(es) : es[j].attr = "none"
         THEN ExtractFailed(<<"object has no attribute 'embedding'">>)
         ELSE [ok |-> TRUE, val |-> [j \in 1..Len(es) |-> es[j].vec],
               exc |-> NoExc]
    ELSE ExtractFailed(
           <<"Could not find the embedding vector list in the API response object.">>)

(* ------------------------- provider outcomes --------------------------- *)

FullVectors(batch) == [j \in 1..Len(batch) |-> Vec(batch[j])]

\* What a response can carry for a batch: one vector per text in order, or
\* no vector at all.
Contents(batch) == {FullVectors(batch), <<>>}

Items(attr, c) == [j \in 1..Len(c) |-> Item(attr, c[j])]

Responses(batch) ==
    {Response(<<c>>, <<>>, <<>>) : c \in Contents(batch)}
    \cup {Response(<<>>, <<c>>, <<>>) : c \in Contents(batch)}
    \cup {Response(<<>>, <<>>, <<Items(a, c)>>) :
              a \in {"value", "embedding", "none"}, c \in Contents(batch)}
    \cup {Response(<<>>, <<>>, <<>>),
          Response(<<FullVectors(batch)>>, << <<>> >>, <<>>)}

ProviderErrors ==
    {Exc("APIError", <<"503 UNAVAILABLE">>),
     Exc("ValueError", <<"invalid contents">>),
     Exc("Exception", <<"connection reset">>)}

BackendErrors ==
    {Exc("ValueError", <<"backend validation failed">>),
     Exc("Exception", <<"backend unavailable">>)}

(* -------------------- get_rag_collection, pure parts ------------------- *)

texts_of(cl) == [j \in 1..Len(cl) |-> cl[j].text]
ids_of(cl) == [j \in 1..Len(cl) |-> cl[j].clause_id]
metadatas_of(cl) == [j \in 1..Len(cl) |-> [page_num |-> cl[j].page_num]]

\* texts[i:i + batch_size]
batch_texts(texts, i) == SubSeq(texts, i + 1, Min(i + batch_size, Len(texts)))

LastChunkAlways(texts, i) == TRUE
\* for i in range(0, len(texts), batch_size): the chunk at i is the last one.
LastChunk(texts, i) == i + batch_size >= Len(texts)

NeedsIndexingAlways(count, cl) == cl # <<>>
NeedsIndexingBelowBatch(count, cl) == count < batch_size /\ cl # <<>>
\* if collection.count() == 0 and clauses:
NeedsIndexing(count, cl) == count = 0 /\ cl # <<>>

ShouldRetryAlways(attempt) == attempt < max_retries
\* if attempt < max_retries - 1:
ShouldRetry(attempt) == attempt < max_retries - 1

RetryableAny(e) == TRUE
\* except APIError as e: the one class the retry loop catches.
Retryable(e) == e.cls = "APIError"

wait_timeFixed(attempt) == 1
\* wait_time = 2 ** attempt
wait_time(attempt) == 2 ^ attempt

extendFront(embeddings, batch_embeddings) == batch_embeddings \o embeddings
\* embeddings.extend(batch_embeddings)
extend(embeddings, batch_embeddings) == embeddings \o batch_embeddings

\* raise APIError(f"Failed to generate embeddings after {max_retries} attempts.")
\* google.genai.errors.APIError.__init__(self, code, response_json, ...) takes
\* two positional arguments: built from the message alone the constructor
\* raises TypeError before anything is raised as an APIError.  The SDK is not
\* part of the repository, so both outcomes are kept.
ExhaustedRaises ==
    {Exc("APIError", <<"Failed to generate embeddings after 3 attempts.">>),
     Exc("TypeError",
         <<"APIError.__init__() missing 1 required positional argument">>)}

ExceptClauseNoCatchAll(e) ==
    IF e.cls = "ValueError" THEN "ValueError"
    ELSE IF e.cls = "APIError" THEN "APIError"
    ELSE "uncaught"
\* The except clause of get_rag_collection that catches e: ValueError, then
\* APIError, then Exception, which every class raised here derives from.
ExceptClause(e) ==
    IF e.cls = "ValueError" THEN "ValueError"
    ELSE IF e.cls = "APIError" THEN "APIError"
    ELSE "Exception"

KeyMissingPrefix == "RAG Setup Error (Key Missing): "
ApiErrorPrefix == "Gemini API Error during embedding generation: "
UnexpectedPrefix == "An unexpected error occurred in RAG setup: "

\* error_msg of the clause that caught e.
error_msg(e) ==
    IF ExceptClause(e) = "ValueError" THEN <<KeyMissingPrefix>> \o e.msg
    ELSE IF ExceptClause(e) = "APIError" THEN <<ApiErrorPrefix>> \o e.msg
    ELSE <<UnexpectedPrefix>> \o e.msg

\* The entries collection.add stores for ids, documents, metadatas, embeddings.
Entries(ids, documents, metadatas, embeddings) ==
    [j \in 1..Len(ids) |->
        [id |-> ids[j], document |-> documents[j],
         metadata |-> metadatas[j], embedding |-> embeddings[j]]]

\* The collection after an add of new: the backend keeps the entry it has
\* under an id and takes the entries with new ids.
AddEntries(coll, new) ==
    coll \o SelectSeq(new, LAMBDA e : \A j \in 1..Len(coll) : coll[j].id # e.id)

(* ----------------------------- rag_store.py ----------------------------- *)

SingleFailed(inner) ==
    [ok  |-> FALSE, val |-> <<>>,
     exc |-> Exc("AttributeError",
                 <<"Failed to extract query embedding due to response structure: ">>
                     \o inner)]

SingleOk(v) == [ok |-> TRUE, val |-> <<v>>, exc |-> NoExc]

extract_single_embedding(response) ==
    IF response.embedding # <<>>
    THEN IF response.embedding[1] = <<>>
         THEN SingleFailed(<<"list index out of range">>)
         ELSE SingleOk(response.embedding[1][1])
    ELSE IF response.values # <<>>
    THEN IF response.values[1] = <<>>
         THEN SingleFailed(<<"list index out of range">>)
         ELSE SingleOk(response.values[1][1])
    ELSE IF response.embeddings # <<>> /\ response.embeddings[1] = <<>>
    THEN SingleFailed(<<"list index out of range">>)
    ELSE IF response.embeddings # <<>> /\ response.embeddings[1][1].attr # "none"
    THEN SingleOk(response.embeddings[1][1].vec)
    ELSE SingleFailed(
           <<"Could not find the single embedding vector in the API response object.">>)

QueryTexts == {"Definitions of key terms and words in the policy.", "flood"}
\* k: app.py asks for 3, the default is 5.
Ks == {1, 3, 5}

NoRelevantMsg == <<"No relevant clauses found in the policy.">>
ApiFailureMsg == <<"Error querying the policy index due to Gemini API failure.">>
UnexpectedQueryMsg == <<"An unexpected error occurred during RAG query.">>
Separator == "\n---\n"

JoinTrailing(docs, sep) ==
    [j \in 1..(2 * Len(docs)) |->
        IF j % 2 = 1 THEN docs[(j + 1) \div 2] ELSE sep]
\* sep.join(docs)
Join(docs, sep) ==
    [j \in 1..(2 * Len(docs) - 1) |->
        IF j % 2 = 1 THEN docs[(j + 1) \div 2] ELSE sep]

\* What the backend's nearest-neighbour search can hand back for n_results
\* = k: up to k stored documents in some rank order, or none.
Ranked(coll, k, start) ==
    [j \in 1..Min(k, Len(coll)) |->
        coll[((start + j - 2) % Len(coll)) + 1].document]

Hits(coll, k) ==
    {<<>>} \cup {Ranked(coll, k, start) : start \in {1, Len(coll)} \ {0}}

\* What one call of query_rag_store did: the string it returned (or the
\* exception that left it), the embed_content calls and the similarity
\* searches it made, the exception its try block caught with the statement
\* that raised it, and the documents the search handed back.
Str(val, embeds, searches) ==
    [kind |-> "str", val |-> val, embeds |-> embeds, searches |-> searches,
     site |-> "none", exc |-> NoExc, docs |-> <<>>]
\* The exception e leaves query_rag_store from the statement at site.
Raises(e, site) ==
    [kind |-> "raised", val |-> <<site, e.cls>>, embeds |-> 0, searches |-> 0,
     site |-> site, exc |-> e, docs |-> <<>>]

\* collection.count() of the handle: the DummyCollection answers 0, the
\* backend answers or raises.
HandleCount(h, coll) ==
    IF h.kind = "dummy"
    THEN {[ok |-> TRUE, n |-> DummyCount(h), exc |-> NoExc]}
    ELSE {[ok |-> TRUE, n |-> Len(coll), exc |-> NoExc]}
         \cup {[ok |-> FALSE, n |-> 0, exc |-> e] : e \in BackendErrors}

\* dummy_results.get('documents', [[]])[0][0]
FirstDocument(results) ==
    IF results.documents[1] = <<>>
    THEN Raises(Exc("IndexError", <<"list index out of range">>), "[0][0]")
    ELSE Str(results.documents[1][1], 0, 0)

\* The count() == 0 branch: collection.query(query_texts=["check_reason"],
\* n_results=1, include=['documents']), outside any try.
CountZeroBranch(h, coll) ==
    IF h.kind = "dummy"
    THEN {FirstDocument(DummyQuery(h))}
    ELSE {Raises(e, "query") : e \in BackendErrors}
         \cup {FirstDocument(
                  [documents |-> << [j \in 1..Min(1, Len(coll)) |->
                                        <<coll[j].document>>] >>])}

\* return "\n---\n".join(relevant_clauses), or the fixed message.
Concatenated(relevant_clauses) ==
    IF relevant_clauses = <<>>
    THEN NoRelevantMsg
    ELSE Join(relevant_clauses, Separator)

QueryExceptClauseApiOnly(e) == "APIError"
\* The except clause of query_rag_store that catches e: APIError, then
\* Exception.
QueryExceptClause(e) ==
    IF e.cls = "APIError" THEN "APIError" ELSE "Exception"

\* The string the clause that caught e returns; e was raised by the
\* statement at site, after embeds embedding calls and searches searches.
QueryCaught(e, site, embeds, searches) ==
    [kind |-> "str",
     val |-> IF QueryExceptClause(e) = "APIError"
             THEN ApiFailureMsg ELSE UnexpectedQueryMsg,
     embeds |-> embeds, searches |-> searches,
     site |-> site, exc |-> e, docs |-> <<>>]

\* The search handed back hits; the try block returns normally.
Found(hits) ==
    [kind |-> "str", val |-> Concatenated(hits), embeds |-> 1, searches |-> 1,
     site |-> "none", exc |-> NoExc, docs |-> hits]

\* genai.Client(api_key=os.getenv("GEMINI_API_KEY")) without a key.
ClientErrors ==
    {Exc("ValueError", <<"Missing key inputs argument!">>)}

\* The try block of query_rag_store with its two except clauses.
TryBranch(coll, query_text, k) ==
    {QueryCaught(e, "client", 0, 0) : e \in ClientErrors}
    \cup {QueryCaught(e, "embed", 1, 0) : e \in ProviderErrors}
    \cup UNION {
          LET r == extract_single_embedding(response) IN
          IF ~r.ok
          THEN {QueryCaught(r.exc, "extract", 1, 0)}
          ELSE {QueryCaught(e, "search", 1, 1) : e \in BackendErrors}
               \cup {Found(hits) : hits \in Hits(coll, k)}
          : response \in Responses(<<query_text>>)}

query_rag_store(h, coll, query_text, k) ==
    UNION {
        IF ~c.ok THEN {Raises(c.exc, "count")}
        ELSE IF c.n = 0 THEN CountZeroBranch(h, coll)
        ELSE TryBranch(coll, query_text, k)
        : c \in HandleCount(h, coll)}

(* --------------------------- clause_detector.py ------------------------- *)

\* A page text is a sequence of characters.  The characters of the modelled
\* documents: a letter, a blank and a newline.
Chars == {"a", " ", "\n"}

\* What str.strip() removes and the regular expression's \s matches.
Whitespace == {" ", "\n", "\t", "\r"}

RECURSIVE lstrip(_)
lstrip(t) ==
    IF t # <<>> /\ Head(t) \in Whitespace THEN lstrip(Tail(t)) ELSE t

RECURSIVE rstrip(_)
rstrip(t) ==
    IF t # <<>> /\ t[Len(t)] \in Whitespace
    THEN rstrip(SubSeq(t, 1, Len(t) - 1))
    ELSE t

stripNothing(t) == t
\* str.strip()
strip(t) == rstrip(lstrip(t))

\* The last position of the whitespace that starts at p (p - 1 if t[p] is
\* none): what a greedy \s* takes at p.
RECURSIVE SpaceRunEnd(_, _)
SpaceRunEnd(t, p) ==
    IF p <= Len(t) /\ t[p] \in Whitespace THEN SpaceRunEnd(t, p + 1) ELSE p - 1

MatchAtAdjacent(t, p) ==
    IF t[p] = "\n" /\ p + 1 <= Len(t) /\ t[p + 1] = "\n" THEN p + 1 ELSE 0
\* The match of r'\n\s*\n' that starts at p: its last position, 0 when there
\* is none.  \s* takes all the whitespace it can and gives it back one
\* character at a time until a newline follows.
MatchAt(t, p) ==
    IF t[p] # "\n"
    THEN 0
    ELSE LET q    == SpaceRunEnd(t, p + 1)
             ends == {r + 1 : r \in {x \in p..q : x + 1 <= Len(t)
                                                   /\ t[x + 1] = "\n"}}
         IN  IF ends = {} THEN 0 ELSE Max(ends)

\* re.split scanning at p, the piece in progress having started at start:
\* the leftmost match ends the piece and the scan goes on behind it.
RECURSIVE Split(_, _, _)
Split(t, start, p) ==
    IF p > Len(t)
    THEN <<SubSeq(t, start, Len(t))>>
    ELSE IF MatchAt(t, p) > 0
    THEN <<SubSeq(t, start, p - 1)>>
             \o Split(t, MatchAt(t, p) + 1, MatchAt(t, p) + 1)
    ELSE Split(t, start, p + 1)

\* re.split(r'\n\s*\n', t)
re_split(t) == Split(t, 1, 1)

sequenceFromZero(para_index) == para_index
\* para_index + 1
sequence(para_index) == para_index + 1

clause_idNoPage(page_num, para_index) ==
    "c" \o ToString(sequence(para_index))
\* f'p{page_num}_c{para_index + 1}'
clause_id(page_num, para_index) ==
    "p" \o ToString(page_num) \o "_c" \o ToString(sequence(para_index))

\* for para_index, paragraph in enumerate(paragraphs): from para_index on.
RECURSIVE ParagraphClauses(_, _, _)
ParagraphClauses(page_num, paragraphs, para_index) ==
    IF para_index >= Len(paragraphs)
    THEN <<>>
    ELSE LET cleaned_paragraph == strip(paragraphs[para_index + 1]) IN
         (IF cleaned_paragraph # <<>>
          THEN <<[clause_id |-> clause_id(page_num, para_index),
                  page_num  |-> page_num,
                  text      |-> cleaned_paragraph]>>
          ELSE <<>>)
         \o ParagraphClauses(page_num, paragraphs, para_index + 1)

\* The body of the page loop of segment_text_into_clauses.
PageClauses(page_num, page_text) ==
    ParagraphClauses(page_num, re_split(strip(page_text)), 0)

\* The documents handed to the segmenter: a text of at most MaxChars
\* characters cut into at most MaxPages pages.
Texts == UNION {[1..n -> Chars] : n \in 0..MaxChars}

\* The ways to cut t into n pages.
RECURSIVE CutInto(_, _)
CutInto(t, n) ==
    IF n = 1
    THEN {<<t>>}
    ELSE UNION {{<<SubSeq(t, 1, k)>> \o rest :
                     rest \in CutInto(SubSeq(t, k + 1, Len(t)), n - 1)} :
                k \in 0..Len(t)}

(* ------------------------------- state --------------------------------- *)

VARIABLES
    collection,        \* the entries of 'insurance_policy_clauses', in insertion order
    concurrent,        \* script runs of different sessions may interleave
    clauses,           \* st.session_state.clauses
    policy_processed,  \* st.session_state.policy_processed
    pc,                \* where the session's script run stands
    api_key,           \* GEMINI_API_KEY as the running call read it
    observed,          \* collection.count() as the running call read it
    i,                 \* start index of the chunk being embedded
    attempt,           \* attempt number of the retry loop
    embeddings,        \* the vectors gathered so far
    handle,            \* rag_collection: what get_rag_collection returned
    qres,              \* what the last query_rag_store call on the handle did
    \* History of the running script run, kept for the properties only.
    atCall,            \* the collection as it was when the run began
    failed,            \* the exception that left the try block of the call
    cause,             \* why it was raised: key_missing, api_exhausted, other
    chunkLog,          \* per chunk of the call: embed calls made, waits slept, errors raised, outcome
    callAdds,          \* collection.add calls of the call
    sessionDegraded,   \* a call of the session has returned a DummyCollection
    \* segment_text_into_clauses
    page_texts,        \* the page texts handed to the segmenter
    page_num,          \* the page the loop has reached (0 before the first)
    all_clauses        \* the clauses gathered so far

vars == <<collection, concurrent, clauses, policy_processed, pc, api_key,
          observed, i, attempt, embeddings, handle, qres, atCall, failed,
          cause, chunkLog, callAdds, sessionDegraded,
          page_texts, page_num, all_clauses>>

\* The state of the segmenter.
seg == <<page_texts, page_num, all_clauses>>

\* The locals of get_rag_collection and the history of the call.
locals == <<api_key, observed, i, attempt, embeddings, chunkLog, callAdds>>
result == <<handle, failed, cause, sessionDegraded>>

NoResult ==
    [kind |-> "none", val |-> <<>>, embeds |-> 0, searches |-> 0,
     site |-> "none", exc |-> NoExc, docs |-> <<>>]

\* No script run is under way and the collection is empty.
InitRuns ==
    /\ collection = <<>>
    /\ api_key = [s \in Sessions |-> TRUE]
    /\ observed = [s \in Sessions |-> 0]
    /\ i = [s \in Sessions |-> 0]
    /\ attempt = [s \in Sessions |-> 0]
    /\ embeddings = [s \in Sessions |-> <<>>]
    /\ handle = [s \in Sessions |-> NoHandle]
    /\ qres = [s \in Sessions |-> NoResult]
    /\ atCall = [s \in Sessions |-> <<>>]
    /\ failed = [s \in Sessions |-> NoExc]
    /\ cause = [s \in Sessions |-> "none"]
    /\ chunkLog = [s \in Sessions |-> <<>>]
    /\ callAdds = [s \in Sessions |-> 0]
    /\ sessionDegraded = [s \in Sessions |-> FALSE]

InitBase ==
    /\ InitRuns
    /\ clauses = [s \in Sessions |-> <<>>]
    /\ policy_processed = [s \in Sessions |-> FALSE]
    /\ pc = [s \in Sessions |-> "landing"]

\* No document is with the segmenter.
NoSegment ==
    /\ page_texts = <<>>
    /\ page_num = 0
    /\ all_clauses = <<>>

\* One script run at a time: the single-session, sequential execution the
\* design assumes.
Init == InitBase /\ concurrent = FALSE /\ NoSegment

InCall == {"client", "getcoll", "count", "embed", "add"}
InRun == InCall \cup {"returned", "ready", "call_raised", "query_raised"}

(* ------------------------------- app.py -------------------------------- *)

\* render_landing_page: a document is uploaded and segmented; the clauses
\* go to the session state and the script reruns.
RenderLandingPage(s) ==
    /\ pc[s] = "landing"
    /\ \E len \in ClauseCounts :
           clauses' = [clauses EXCEPT ![s] = Doc(DocOf(s), len)]
    /\ policy_processed' = [policy_processed EXCEPT ![s] = TRUE]
    /\ pc' = [pc EXCEPT ![s] = "idle"]
    /\ UNCHANGED <<collection, concurrent, seg, locals, result, qres, atCall>>

\* render_analysis_page up to the call of get_rag_collection: every script
\* run of a processed session makes the call, with the session's clauses.
RenderAnalysisPage(s) ==
    /\ pc[s] = "idle"
    /\ policy_processed[s]
    /\ concurrent \/ \A t \in Sessions \ {s} : pc[t] \notin InRun
    /\ pc' = [pc EXCEPT ![s] = "client"]
    /\ atCall' = [atCall EXCEPT ![s] = collection]
    /\ UNCHANGED <<collection, concurrent, seg, clauses, policy_processed, locals,
                   result, qres>>

(* -------------------------- get_rag_collection ------------------------- *)

\* The exception e leaves the try block: the clause that catches it returns
\* a DummyCollection; an exception no clause catches leaves the function.
Caught(s, e, why) ==
    /\ failed' = [failed EXCEPT ![s] = e]
    /\ cause' = [cause EXCEPT ![s] = why]
    /\ IF ExceptClause(e) = "uncaught"
       THEN /\ pc' = [pc EXCEPT ![s] = "call_raised"]
            /\ UNCHANGED <<handle, sessionDegraded>>
       ELSE /\ handle' = [handle EXCEPT ![s] = DummyCollection(error_msg(e))]
            /\ sessionDegraded' = [sessionDegraded EXCEPT ![s] = TRUE]
            /\ pc' = [pc EXCEPT ![s] = "returned"]

\* return collection
Returned(s) ==
    /\ handle' = [handle EXCEPT ![s] = RealCollection]
    /\ pc' = [pc EXCEPT ![s] = "returned"]
    /\ UNCHANGED <<failed, cause, sessionDegraded>>

\* client_gemini = get_gemini_client_for_rag()
GetGeminiClient(s) ==
    /\ pc[s] = "client"
    /\ \E key \in BOOLEAN :
         /\ api_key' = [api_key EXCEPT ![s] = key]
         /\ LET r == get_gemini_client_for_rag(key) IN
            IF r.ok
            THEN /\ pc' = [pc EXCEPT ![s] = "getcoll"]
                 /\ UNCHANGED result
            ELSE Caught(s, r.exc, "key_missing")
    /\ UNCHANGED <<collection, concurrent, seg, clauses, policy_processed, observed,
                   i, attempt, embeddings, chunkLog, callAdds, qres, atCall>>

\* collection = client.get_or_create_collection(name=CHROMA_COLLECTION_NAME)
GetOrCreateCollection(s) ==
    /\ pc[s] = "getcoll"
    /\ \/ /\ pc' = [pc EXCEPT ![s] = "count"]
          /\ UNCHANGED result
       \/ \E e \in BackendErrors : Caught(s, e, "other")
    /\ UNCHANGED <<collection, concurrent, seg, clauses, policy_processed, locals,
                   qres, atCall>>

NewChunk == [calls |-> 0, waits |-> <<>>, errs |-> <<>>, ok |-> FALSE]

\* if collection.count() == 0 and clauses:
CountCheck(s) ==
    /\ pc[s] = "count"
    /\ \/ /\ observed' = [observed EXCEPT ![s] = Len(collection)]
          /\ IF NeedsIndexing(Len(collection), clauses[s])
             THEN /\ pc' = [pc EXCEPT ![s] = "embed"]
                  /\ chunkLog' = [chunkLog EXCEPT ![s] = <<NewChunk>>]
                  /\ UNCHANGED result
             ELSE /\ Returned(s)
                  /\ UNCHANGED chunkLog
       \/ /\ \E e \in BackendErrors : Caught(s, e, "other")
          /\ UNCHANGED <<observed, chunkLog>>
    /\ UNCHANGED <<collection, concurrent, seg, clauses, policy_processed, api_key,
                   i, attempt, embeddings, callAdds, qres, atCall>>

LogCall(log, e) ==
    [log EXCEPT ![Len(log)].calls = @ + 1,
                ![Len(log)].errs = Append(@, e.cls)]
LogWait(log, w, e) ==
    [log EXCEPT ![Len(log)].calls = @ + 1,
                ![Len(log)].errs = Append(@, e.cls),
                ![Len(log)].waits = Append(@, w)]
LogOk(log) ==
    [log EXCEPT ![Len(log)].calls = @ + 1, ![Len(log)].ok = TRUE]

\* The attempt raised e inside the try of the retry loop: an APIError is
\* caught there, and the loop sleeps and goes on or, on the last attempt,
\* raises; anything else leaves the loop.
AttemptRaised(s, e) ==
    IF Retryable(e)
    THEN IF ShouldRetry(attempt[s])
         THEN /\ chunkLog' = [chunkLog EXCEPT ![s] =
                                 LogWait(@, wait_time(attempt[s]), e)]
              /\ attempt' = [attempt EXCEPT ![s] = @ + 1]
              /\ UNCHANGED <<pc, result, embeddings, i>>
         ELSE /\ \E x \in ExhaustedRaises : Caught(s, x, "api_exhausted")
              /\ chunkLog' = [chunkLog EXCEPT ![s] = LogCall(@, e)]
              /\ UNCHANGED <<embeddings, i, attempt>>
    ELSE /\ Caught(s, e, "other")
         /\ chunkLog' = [chunkLog EXCEPT ![s] = LogCall(@, e)]
         /\ UNCHANGED <<embeddings, i, attempt>>

\* One attempt of the retry loop on the chunk at i: embed_content, then the
\* extraction, then break, sleep or raise.
EmbedContent(s) ==
    /\ pc[s] = "embed"
    /\ LET texts == texts_of(clauses[s])
           batch == batch_texts(texts, i[s])
       IN
       \/ \E response \in Responses(batch) :
            LET r == extract_embeddings_from_response(response) IN
            IF r.ok
            THEN /\ embeddings' = [embeddings EXCEPT ![s] = extend(@, r.val)]
                 /\ i' = [i EXCEPT ![s] = @ + batch_size]
                 /\ attempt' = [attempt EXCEPT ![s] = 0]
                 /\ IF ~LastChunk(texts, i[s])
                    THEN /\ pc' = [pc EXCEPT ![s] = "embed"]
                         /\ chunkLog' = [chunkLog EXCEPT ![s] =
                                            Append(LogOk(@), NewChunk)]
                         /\ UNCHANGED result
                    ELSE /\ chunkLog' = [chunkLog EXCEPT ![s] = LogOk(@)]
                         /\ IF extend(embeddings[s], r.val) # <<>>
                            THEN /\ pc' = [pc EXCEPT ![s] = "add"]
                                 /\ UNCHANGED result
                            ELSE Returned(s)
            ELSE AttemptRaised(s, r.exc)
       \/ \E e \in ProviderErrors : AttemptRaised(s, e)
    /\ UNCHANGED <<collection, concurrent, seg, clauses, policy_processed, api_key,
                   observed, callAdds, qres, atCall>>

\* collection.add(embeddings=..., documents=texts, metadatas=..., ids=ids).
\* The backend validates before it stores: unequal lengths are refused with
\* a ValueError, and a refused add stores nothing.  An add that meets ids
\* already stored (possible only when calls interleave) skips them or is
\* refused.
CollectionAdd(s) ==
    /\ pc[s] = "add"
    /\ callAdds' = [callAdds EXCEPT ![s] = @ + 1]
    /\ LET cl == clauses[s] IN
       \/ /\ Len(embeddings[s]) = Len(cl)
          /\ collection' = AddEntries(collection,
                 Entries(ids_of(cl), texts_of(cl), metadatas_of(cl), embeddings[s]))
          /\ Returned(s)
       \/ /\ \E e \in BackendErrors :
                /\ Len(embeddings[s]) # Len(cl) => e.cls = "ValueError"
                /\ Caught(s, e, "other")
          /\ UNCHANGED collection
    /\ UNCHANGED <<concurrent, seg, clauses, policy_processed, api_key, observed, i,
                   attempt, embeddings, chunkLog, qres, atCall>>

\* rag_collection = get_rag_collection(...): the call is over and its locals
\* are gone; the page shows its buttons.
ShowButtons(s) ==
    /\ pc[s] = "returned"
    /\ pc' = [pc EXCEPT ![s] = "ready"]
    /\ api_key' = [api_key EXCEPT ![s] = TRUE]
    /\ observed' = [observed EXCEPT ![s] = 0]
    /\ i' = [i EXCEPT ![s] = 0]
    /\ attempt' = [attempt EXCEPT ![s] = 0]
    /\ embeddings' = [embeddings EXCEPT ![s] = <<>>]
    /\ chunkLog' = [chunkLog EXCEPT ![s] = <<>>]
    /\ callAdds' = [callAdds EXCEPT ![s] = 0]
    /\ UNCHANGED <<collection, concurrent, seg, clauses, policy_processed, result,
                   qres, atCall>>

\* app.py, "Show Raw Clauses": query_rag_store(rag_collection, ..., k=3).
QueryRagStore(s) ==
    /\ pc[s] = "ready"
    /\ \E query_text \in QueryTexts, k \in Ks :
         \E r \in query_rag_store(handle[s], collection, query_text, k) :
            /\ qres' = [qres EXCEPT ![s] = r]
            /\ pc' = [pc EXCEPT ![s] =
                         IF r.kind = "raised" THEN "query_raised" ELSE "ready"]
    /\ UNCHANGED <<collection, concurrent, seg, clauses, policy_processed, locals,
                   result, atCall>>

\* The script run ends (or an exception ended it); the next interaction
\* starts another.
EndRun(s) ==
    /\ pc[s] \in {"ready", "call_raised", "query_raised"}
    /\ pc' = [pc EXCEPT ![s] = "idle"]
    /\ api_key' = [api_key EXCEPT ![s] = TRUE]
    /\ observed' = [observed EXCEPT ![s] = 0]
    /\ i' = [i EXCEPT ![s] = 0]
    /\ attempt' = [attempt EXCEPT ![s] = 0]
    /\ embeddings' = [embeddings EXCEPT ![s] = <<>>]
    /\ handle' = [handle EXCEPT ![s] = NoHandle]
    /\ qres' = [qres EXCEPT ![s] = NoResult]
    /\ atCall' = [atCall EXCEPT ![s] = <<>>]
    /\ failed' = [failed EXCEPT ![s] = NoExc]
    /\ cause' = [cause EXCEPT ![s] = "none"]
    /\ chunkLog' = [chunkLog EXCEPT ![s] = <<>>]
    /\ callAdds' = [callAdds EXCEPT ![s] = 0]
    /\ UNCHANGED <<collection, concurrent, seg, clauses, policy_processed,
                   sessionDegraded>>

Next ==
    \E s \in Sessions :
        \/ RenderLandingPage(s)
        \/ RenderAnalysisPage(s)
        \/ GetGeminiClient(s)
        \/ GetOrCreateCollection(s)
        \/ CountCheck(s)
        \/ EmbedContent(s)
        \/ CollectionAdd(s)
        \/ ShowButtons(s)
        \/ QueryRagStore(s)
        \/ EndRun(s)

Spec == Init /\ [][Next]_vars

\* Streamlit runs the script of every session in a thread of its own: the
\* script runs of two sessions may interleave (concurrent), or follow one
\* another.
\* Both sessions have uploaded their documents, of 2 and of 3 clauses.
InitRace ==
    /\ InitRuns
    /\ clauses = [s \in Sessions |->
                     Doc(DocOf(s), IF s = "s1" THEN 2 ELSE 3)]
    /\ policy_processed = [s \in Sessions |-> TRUE]
    /\ pc = [s \in Sessions |-> "idle"]
    /\ concurrent \in BOOLEAN
    /\ NoSegment

NextRace ==
    \E s \in Sessions :
        \/ RenderAnalysisPage(s)
        \/ GetGeminiClient(s)
        \/ GetOrCreateCollection(s)
        \/ CountCheck(s)
        \/ EmbedContent(s)
        \/ CollectionAdd(s)
        \/ ShowButtons(s)
        \/ QueryRagStore(s)
        \/ EndRun(s)

SpecRace == InitRace /\ [][NextRace]_vars

(* ---------------------- segment_text_into_clauses ---------------------- *)

\* A document reaches the segmenter; nothing else of the program runs.
InitSegment ==
    /\ InitBase
    /\ concurrent = FALSE
    /\ \/ page_texts = <<>>
       \/ \E t \in Texts, n \in 1..MaxPages : page_texts \in CutInto(t, n)
    /\ page_num = 0
    /\ all_clauses = <<>>

\* for page_num, page_text in enumerate(page_texts, 1): one page.
SegmentPage ==
    /\ page_num < Len(page_texts)
    /\ page_num' = page_num + 1
    /\ all_clauses' = all_clauses
                          \o PageClauses(page_num + 1, page_texts[page_num + 1])
    /\ UNCHANGED <<page_texts, collection, concurrent, clauses,
                   policy_processed, pc, locals, result, qres, atCall>>

NextSegment == SegmentPage

SpecSegment == InitSegment /\ [][NextSegment]_vars

(* ------------------------------ properties ----------------------------- *)

Degraded(h) == h.kind = "dummy"

\* The last chunk the call started stopped without its vectors.
ChunkFailed(s) ==
    chunkLog[s] # <<>> /\ ~chunkLog[s][Len(chunkLog[s])].ok

\* C1: get_rag_collection never raises to its caller.  Whatever the clause
\* list, the credential and the outcomes of the provider and the backend, the
\* call returns a handle (the collection or a DummyCollection), and whenever
\* an exception left its try block the handle is a DummyCollection that
\* carries a failure_reason.
C1_NeverRaises ==
    \A s \in Sessions :
        /\ pc[s] # "call_raised"
        /\ pc[s] = "returned" => handle[s].kind \in {"collection", "dummy"}
        /\ (pc[s] \in InRun /\ failed[s] # NoExc) =>
               /\ Degraded(handle[s])
               /\ Len(handle[s].failure_reason) >= 2

\* C1 happens: the bulk insert itself raised, and a DummyCollection came back.
C1_Witness ==
    \E s \in Sessions :
        /\ pc[s] = "returned"
        /\ callAdds[s] = 1
        /\ failed[s].cls = "Exception"
        /\ Degraded(handle[s])

\* C2: query_rag_store never raises, for every handle get_rag_collection can
\* return and every outcome of the embedding call and of the backend search;
\* the count() == 0 branch included.  (Only count() itself failing is left
\* out of the statement.)
C2_QueryNeverRaises ==
    \A s \in Sessions :
        qres[s].kind = "raised" => qres[s].val[1] = "count"

\* C3: with an empty collection and an empty clause list get_rag_collection
\* returns a DummyCollection with a failure_reason, the credential present or
\* not, and every later query on the handle returns that failure_reason
\* without an embedding call.
C3_EmptyCorpusDegraded ==
    \A s \in Sessions :
        (pc[s] \in {"returned", "ready", "query_raised"}
            /\ atCall[s] = <<>> /\ clauses[s] = <<>>) =>
               /\ Degraded(handle[s])
               /\ handle[s].failure_reason # <<>>
               /\ qres[s].kind # "none" =>
                      qres[s] = Str(handle[s].failure_reason, 0, 0)

\* C4, as claimed: once the collection holds an entry, every further
\* get_rag_collection call returns the collection handle, makes no
\* batch-embedding call and no add, and leaves the entries unchanged, also
\* across the queries that follow.
C4_AlwaysExistingHandle ==
    \A s \in Sessions :
        (pc[s] \in InRun /\ atCall[s] # <<>>) =>
            /\ collection = atCall[s]
            /\ chunkLog[s] = <<>>
            /\ callAdds[s] = 0
            /\ pc[s] \in {"returned", "ready"} => handle[s] = RealCollection

\* C4, amended: once the collection holds an entry, every further
\* get_rag_collection call makes no batch-embedding call and no add and
\* leaves the entries unchanged, also across the queries that follow; it
\* returns the collection handle unless the credential is missing or
\* get_or_create_collection or count raises, and then a DummyCollection.
C4_OneShotIndexing ==
    \A s \in Sessions :
        (pc[s] \in InRun /\ atCall[s] # <<>>) =>
            /\ collection = atCall[s]
            /\ chunkLog[s] = <<>>
            /\ callAdds[s] = 0
            /\ pc[s] \in {"returned", "ready"} =>
                  IF failed[s] = NoExc
                  THEN handle[s] = RealCollection
                  ELSE /\ Degraded(handle[s])
                       /\ \/ cause[s] = "key_missing"
                          \/ failed[s] \in BackendErrors

\* C4 happens: a call with another document's clauses came back with the
\* collection that holds the first document's entries.
C4_Witness ==
    \E s \in Sessions :
        /\ pc[s] = "returned"
        /\ handle[s] = RealCollection
        /\ atCall[s] # <<>>
        /\ clauses[s] # <<>>
        /\ collection[1].document # clauses[s][1].text

C6_AllOrNothing ==
    \A s \in Sessions :
        /\ callAdds[s] <= 1
        /\ (pc[s] = "add" \/ callAdds[s] = 1) =>
               /\ Len(chunkLog[s]) * batch_size >= Len(clauses[s])
               /\ \A j \in 1..Len(chunkLog[s]) : chunkLog[s][j].ok
        /\ (pc[s] = "returned" /\ ChunkFailed(s)) =>
               /\ callAdds[s] = 0
               /\ Degraded(handle[s])
               /\ collection = <<>>

\* C6 happens: the first chunk gave its vectors, the second failed, and the
\* collection is empty.
C6_Witness ==
    \E s \in Sessions :
        /\ pc[s] = "returned"
        /\ Len(chunkLog[s]) = 2
        /\ chunkLog[s][1].ok
        /\ ~chunkLog[s][2].ok
        /\ Len(embeddings[s]) = batch_size
        /\ collection = <<>>

\* C7: a query on a DummyCollection returns exactly the failure_reason the
\* handle was made with, whatever the query text and k, makes no embedding
\* call and no similarity search, and leaves the handle as it was, so every
\* repetition returns the same string.
C7_DegradedQuery ==
    \A s \in Sessions :
        (Degraded(handle[s]) /\ pc[s] \in {"returned", "ready", "query_raised"}) =>
            /\ handle[s] = DummyCollection(error_msg(failed[s]))
            /\ pc[s] # "query_raised"
            /\ qres[s].kind # "none" =>
                   /\ qres[s].kind = "str"
                   /\ qres[s].val = error_msg(failed[s])
                   /\ qres[s].embeds = 0
                   /\ qres[s].searches = 0

\* C7 happens: a handle degraded by an API failure has answered a query.
C7_Witness ==
    \E s \in Sessions :
        /\ Degraded(handle[s])
        /\ failed[s].cls = "APIError"
        /\ qres[s].kind = "str"

\* One entry per clause of cl, in order, keyed by clause_id.
HoldsExactly(coll, cl) ==
    /\ Len(coll) = Len(cl)
    /\ \A j \in 1..Len(cl) :
          /\ coll[j].id = cl[j].clause_id
          /\ coll[j].document = cl[j].text
          /\ coll[j].metadata = [page_num |-> cl[j].page_num]

\* C8: whenever get_rag_collection(clauses) returns an operational handle
\* (the collection, holding entries), the collection holds exactly one entry
\* per clause of that clause list, keyed by clause_id, with the clause text
\* as document and its page_num as metadata, and no other entry.
C8_IndexConsistency ==
    \A s \in Sessions :
        (pc[s] = "returned" /\ handle[s] = RealCollection /\ collection # <<>>)
            => HoldsExactly(collection, clauses[s])

\* C9: the embedding call of a chunk is attempted at most 3 times.  A chunk
\* that got its vectors after n API errors got them after exactly n waits (2
\* waits after 2 errors); a chunk whose call failed with an API error 3 times
\* gets no fourth attempt and no wait after the last failure, and the
\* indexing fails.
C9_RetryBound ==
    \A s \in Sessions :
        /\ \A j \in 1..Len(chunkLog[s]) :
              /\ chunkLog[s][j].calls <= 3
              /\ Len(chunkLog[s][j].waits) <= 2
              /\ chunkLog[s][j].ok =>
                     Len(chunkLog[s][j].waits) = chunkLog[s][j].calls - 1
        /\ (pc[s] = "returned" /\ cause[s] = "api_exhausted") =>
              /\ chunkLog[s][Len(chunkLog[s])].calls = 3
              /\ Len(chunkLog[s][Len(chunkLog[s])].waits) = 2
              /\ ~chunkLog[s][Len(chunkLog[s])].ok
              /\ Degraded(handle[s])
              /\ callAdds[s] = 0

\* C9 happens: the first chunk failed twice and then gave its vectors, the
\* second failed three times.
C9_Witness ==
    \E s \in Sessions :
        /\ pc[s] = "returned"
        /\ cause[s] = "api_exhausted"
        /\ Len(chunkLog[s]) = 2
        /\ chunkLog[s][1].ok
        /\ chunkLog[s][1].calls = 3
        /\ Len(embeddings[s]) = batch_size

\* C10: the failure_reason names the cause.  A missing credential gives the
\* key-missing reason and no embedding call; three API errors on a chunk
\* give the embedding-API-failure reason; any other exception gives the
\* unexpected-error reason; no two causes share a reason.
C10_ReasonNamesCause ==
    \A s \in Sessions :
        (pc[s] = "returned" /\ Degraded(handle[s])) =>
            /\ cause[s] = "key_missing" =>
                   /\ Head(handle[s].failure_reason) = KeyMissingPrefix
                   /\ chunkLog[s] = <<>>
            /\ cause[s] = "api_exhausted" =>
                   Head(handle[s].failure_reason) = ApiErrorPrefix
            /\ cause[s] = "other" =>
                   Head(handle[s].failure_reason) = UnexpectedPrefix

\* The handle is the collection and the collection holds entries.
Operational(s) == handle[s] = RealCollection /\ collection # <<>>

\* C11: on an operational handle whose embedding and search succeed, the
\* query returns the retrieved clause texts in result order, every two
\* neighbours separated by the line '---' (newline, three dashes, newline),
\* with no separator before the first or after the last text; it returns
\* 'No relevant clauses found in the policy.' exactly when the search handed
\* back no document.
C11_JoinedInResultOrder ==
    \A s \in Sessions :
        (Operational(s) /\ qres[s].kind = "str" /\ qres[s].searches = 1
            /\ qres[s].exc = NoExc) =>
            LET docs == qres[s].docs
                val  == qres[s].val
            IN
            /\ (docs = <<>>) <=>
                   (val = <<"No relevant clauses found in the policy.">>)
            /\ docs # <<>> =>
                   /\ Len(val) = 2 * Len(docs) - 1
                   /\ \A j \in 1..Len(docs) : val[2 * j - 1] = docs[j]
                   /\ \A j \in 1..(Len(docs) - 1) : val[2 * j] = "\n---\n"

\* C11 happens: three clauses came back, the first of them not the first
\* stored, and the query returned them joined.
C11_Witness ==
    \E s \in Sessions :
        /\ Operational(s)
        /\ qres[s].kind = "str"
        /\ Len(qres[s].docs) = 3
        /\ qres[s].docs[1] # collection[1].document
        /\ Len(qres[s].val) = 5

\* C12: on an operational handle, an API error from the query embedding call
\* makes the query return the API-failure message; any other exception from
\* the embedding call, the extraction or the backend search makes it return
\* the unexpected-error message; in both cases the embedding call was made
\* exactly once, and no query changes the collection.
C12_QueryFailureClass ==
    /\ [](\A s \in Sessions :
            (Operational(s) /\ qres[s].kind = "str"
                /\ qres[s].site \in {"embed", "extract", "search"}) =>
                /\ qres[s].exc.cls = "APIError" =>
                       /\ qres[s].site = "embed"
                       /\ qres[s].val = ApiFailureMsg
                /\ qres[s].exc.cls # "APIError" =>
                       qres[s].val = UnexpectedQueryMsg
                /\ qres[s].embeds = 1
                /\ qres[s].searches = IF qres[s].site = "search" THEN 1 ELSE 0)
    /\ [][\A s \in Sessions :
            (pc[s] = "ready" /\ qres'[s] # qres[s]) => collection' = collection]_vars

\* C12 happens: the backend search raised a ValueError after the one
\* embedding call, and the query returned the unexpected-error message.
C12_Witness ==
    \E s \in Sessions :
        /\ Operational(s)
        /\ qres[s].site = "search"
        /\ qres[s].exc.cls = "ValueError"
        /\ qres[s].val = UnexpectedQueryMsg
        /\ qres[s].embeds = 1

\* C16: the clause texts go out in consecutive chunks of at most 50 in input
\* order, one chunk after the other; and when every chunk gave one vector per
\* text in order (here: as many vectors as texts were gathered), the j-th
\* embedding handed to the bulk insert is the vector of the j-th clause text
\* and is stored with the j-th clause_id, across chunk boundaries and after
\* retried chunks.
C16_BatchOrder ==
    \A s \in Sessions :
        LET cl == clauses[s] IN
        /\ pc[s] = "embed" =>
               /\ i[s] = (Len(chunkLog[s]) - 1) * 50
               /\ Len(batch_texts(texts_of(cl), i[s])) \in 1..50
               /\ \A j \in 1..Len(batch_texts(texts_of(cl), i[s])) :
                      batch_texts(texts_of(cl), i[s])[j] = cl[i[s] + j].text
        /\ (pc[s] = "add" /\ Len(embeddings[s]) = Len(cl)) =>
               \A j \in 1..Len(cl) : embeddings[s][j] = Vec(cl[j].text)
        /\ (pc[s] = "returned" /\ callAdds[s] = 1 /\ failed[s] = NoExc) =>
               /\ Len(collection) = Len(cl)
               /\ \A j \in 1..Len(cl) :
                      /\ collection[j].id = cl[j].clause_id
                      /\ collection[j].embedding = Vec(cl[j].text)

\* C16 happens: 51 clauses were stored, the first chunk after a retry, and
\* the 51st entry carries the vector of the 51st text.
C16_Witness ==
    \E s \in Sessions :
        /\ pc[s] = "returned"
        /\ callAdds[s] = 1
        /\ failed[s] = NoExc
        /\ Len(chunkLog[s]) = 2
        /\ chunkLog[s][1].calls = 2
        /\ Len(collection) = 51
        /\ collection[51].embedding = Vec(clauses[s][51].text)
        /\ collection[51].id = clauses[s][51].clause_id

DegradedWithDescription(s) ==
    /\ pc[s] = "returned"
    /\ Degraded(handle[s])
    /\ failed[s].msg # <<>>
    /\ Tail(handle[s].failure_reason) = failed[s].msg
    /\ callAdds[s] = 0

\* C18, as claimed: a chunk whose embedding call or extraction raised
\* anything other than an API error was attempted exactly once and without
\* any wait; no later chunk is called, and the call returns a degraded handle
\* whose failure_reason includes the error description.
C18_NonApiAttemptedOnce ==
    \A s \in Sessions :
        \A j \in 1..Len(chunkLog[s]) :
            \A n \in 1..Len(chunkLog[s][j].errs) :
                chunkLog[s][j].errs[n] # "APIError" =>
                    /\ chunkLog[s][j].calls = 1
                    /\ chunkLog[s][j].waits = <<>>
                    /\ j = Len(chunkLog[s])
                    /\ DegradedWithDescription(s)

\* C18, amended: an error other than an API error is never retried.  The
\* attempt that raised it is the last of its chunk, no wait follows it, no
\* later chunk is called, and the call returns a degraded handle whose
\* failure_reason includes the error description.  The chunk was attempted
\* once more than it had API errors before (each of them followed by its
\* wait): exactly once when there were none.
C18_NonApiNotRetried ==
    \A s \in Sessions :
        \A j \in 1..Len(chunkLog[s]) :
            \A n \in 1..Len(chunkLog[s][j].errs) :
                chunkLog[s][j].errs[n] # "APIError" =>
                    /\ n = Len(chunkLog[s][j].errs)
                    /\ chunkLog[s][j].calls = n
                    /\ Len(chunkLog[s][j].waits) = n - 1
                    /\ ~chunkLog[s][j].ok
                    /\ j = Len(chunkLog[s])
                    /\ failed[s].cls = chunkLog[s][j].errs[n]
                    /\ DegradedWithDescription(s)

\* C18 happens: the second chunk had an API error, waited, and then its
\* response matched no known shape.
C18_Witness ==
    \E s \in Sessions :
        /\ pc[s] = "returned"
        /\ Len(chunkLog[s]) = 2
        /\ chunkLog[s][2].errs = <<"APIError", "AttributeError">>
        /\ chunkLog[s][2].waits = <<1>>
        /\ Degraded(handle[s])

\* The clauses gathered from page P, in output order.
OfPage(P) == SelectSeq(all_clauses, LAMBDA c : c.page_num = P)

TextsOf(cs) == [n \in 1..Len(cs) |-> cs[n].text]

\* x stands in t at position a.
StandsAt(x, t, a) ==
    a + Len(x) - 1 <= Len(t) /\ SubSeq(t, a, a + Len(x) - 1) = x

\* The texts stand in t one behind the other, from position from on.
RECURSIVE InOrder(_, _, _)
InOrder(texts, t, from) ==
    \/ texts = <<>>
    \/ \E a \in from..Len(t) :
          /\ StandsAt(Head(texts), t, a)
          /\ InOrder(Tail(texts), t, a + Len(Head(texts)))

\* C13: no two clauses share a clause_id, and every clause_id is
\* 'p<page_num>_c<sequence>' with page_num the 1-based index of the page the
\* clause text stands in.
C13_ClauseIdentity ==
    /\ \A j, k \in 1..Len(all_clauses) :
          j # k => all_clauses[j].clause_id # all_clauses[k].clause_id
    /\ \A j \in 1..Len(all_clauses) :
          LET c == all_clauses[j] IN
          /\ c.page_num \in 1..page_num
          /\ \E n \in 1..Len(page_texts[c.page_num]) :
                c.clause_id = "p" \o ToString(c.page_num) \o "_c" \o ToString(n)
          /\ \E a \in 1..Len(page_texts[c.page_num]) :
                StandsAt(c.text, page_texts[c.page_num], a)

\* C13 happens: two pages gave a clause each, both with sequence number 1.
C13_Witness ==
    /\ page_num = 2
    /\ Len(all_clauses) = 2
    /\ all_clauses[1].clause_id = "p1_c1"
    /\ all_clauses[2].clause_id = "p2_c1"
    /\ all_clauses[1].text # all_clauses[2].text

\* C14: the clauses of each page carry the sequence numbers 1, 2, ..., n
\* without a gap, in the order their texts stand in the page, restarting at
\* 1 on every page; the output lists the pages in input order.
C14_SequenceNumbering ==
    /\ \A j \in 1..(Len(all_clauses) - 1) :
          all_clauses[j].page_num <= all_clauses[j + 1].page_num
    /\ \A P \in 1..page_num :
          LET cs == OfPage(P) IN
          /\ \A n \in 1..Len(cs) :
                cs[n].clause_id = "p" \o ToString(P) \o "_c" \o ToString(n)
          /\ InOrder(TextsOf(cs), page_texts[P], 1)

\* C14 happens: the first page gave two different clauses, the second page
\* one, numbered 1 again.
C14_Witness ==
    /\ page_num = 2
    /\ Len(all_clauses) = 3
    /\ all_clauses[1].clause_id = "p1_c1"
    /\ all_clauses[2].clause_id = "p1_c2"
    /\ all_clauses[3].clause_id = "p2_c1"
    /\ Len(all_clauses[1].text) < Len(all_clauses[2].text)

\* Every character of t is whitespace (t may be empty).
Blank(t) == \A q \in 1..Len(t) : t[q] \in Whitespace

\* C15: no clause has an empty or whitespace-only text, and no clause text
\* begins or ends with whitespace; an empty page and a page of whitespace and
\* blank-line markers only give no clause and take no sequence number: the
\* first clause of every page is number 1.
C15_NonEmptiness ==
    /\ \A j \in 1..Len(all_clauses) :
          LET text == all_clauses[j].text IN
          /\ text # <<>>
          /\ ~Blank(text)
          /\ text[1] \notin Whitespace
          /\ text[Len(text)] \notin Whitespace
    /\ \A P \in 1..page_num :
          /\ Blank(page_texts[P]) => OfPage(P) = <<>>
          /\ OfPage(P) # <<>> =>
                OfPage(P)[1].clause_id = "p" \o ToString(P) \o "_c1"

\* C15 happens: the first page holds only blank-line markers with whitespace
\* between them and gave nothing; the second page gave clause p2_c1 from a
\* text with whitespace around it.
C15_Witness ==
    /\ page_num = 2
    /\ Len(page_texts[1]) >= 3
    /\ Blank(page_texts[1])
    /\ Len(all_clauses) = 1
    /\ all_clauses[1].clause_id = "p2_c1"
    /\ Len(all_clauses[1].text) < Len(page_texts[2])

\* The newlines of t that stand next to another newline: the runs of two or
\* more consecutive newline characters.
NewlineBreaks(t) ==
    {p \in 1..Len(t) :
        /\ t[p] = "\n"
        /\ \/ p > 1 /\ t[p - 1] = "\n"
           \/ p < Len(t) /\ t[p + 1] = "\n"}

\* The whitespace of t that belongs to a stretch of whitespace with two or
\* more newlines in it.
BlankLineBreaks(t) ==
    {p \in 1..Len(t) :
        \E a \in 1..p, b \in p..Len(t) :
            /\ \A q \in a..b : t[q] \in Whitespace
            /\ Cardinality({q \in a..b : t[q] = "\n"}) >= 2}

\* The stretches of t between the positions of breaks, from a on, each
\* trimmed, the empty ones dropped.
RECURSIVE Fragments(_, _, _)
Fragments(t, breaks, a) ==
    IF a > Len(t)
    THEN <<>>
    ELSE IF a \in breaks
    THEN Fragments(t, breaks, a + 1)
    ELSE LET b == Max({x \in a..Len(t) : \A y \in a..x : y \notin breaks})
             f == strip(SubSeq(t, a, b))
         IN  (IF f # <<>> THEN <<f>> ELSE <<>>) \o Fragments(t, breaks, b + 1)

\* C19, as claimed: the clause texts of every page are exactly the trimmed
\* fragments between the runs of two or more consecutive newline characters,
\* so that text separated by newlines that are not consecutive stays in one
\* clause.
C19_SplitAtConsecutiveNewlines ==
    \A P \in 1..page_num :
        TextsOf(OfPage(P)) =
            Fragments(page_texts[P], NewlineBreaks(page_texts[P]), 1)

\* C19, amended: the clause texts of every page are exactly the trimmed,
\* non-empty fragments between the stretches of whitespace that hold two or
\* more newline characters, consecutive or with other whitespace between
\* them; text separated by whitespace with at most one newline in it stays
\* in one clause.
C19_SplitAtBlankLines ==
    \A P \in 1..page_num :
        TextsOf(OfPage(P)) =
            Fragments(page_texts[P], BlankLineBreaks(page_texts[P]), 1)

\* C19 happens: a page without two consecutive newlines gave two clauses.
C19_Witness ==
    /\ page_num >= 1
    /\ NewlineBreaks(page_texts[1]) = {}
    /\ Len(OfPage(1)) = 2

\* C20: the index-only-if-empty guard is not a lock.  When the script runs
\* follow one another, the collection is only ever written while it is
\* empty, and a write leaves it non-empty: at most one bulk insert is ever
\* performed.  Interleaved or not, every insert is made by a call that
\* observed count == 0; with interleaving two calls can both have observed 0
\* and both insert (C20_Witness).
C20_GuardIsNoLock ==
    /\ [](\A s \in Sessions :
            /\ (pc[s] = "add" \/ callAdds[s] = 1) => observed[s] = 0
            /\ (~concurrent /\ pc[s] = "add") => collection = <<>>)
    /\ [][(~concurrent /\ collection' # collection) =>
              (collection = <<>> /\ collection' # <<>>)]_vars

\* C20 happens: the calls of both sessions observed count == 0, both made
\* their bulk insert without an error, and the collection holds clauses of
\* both documents.
C20_Witness ==
    /\ concurrent
    /\ \A s \in Sessions :
          /\ pc[s] = "returned"
          /\ observed[s] = 0
          /\ callAdds[s] = 1
          /\ failed[s] = NoExc
          /\ \E j \in 1..Len(collection), k \in 1..Len(clauses[s]) :
                collection[j].document = clauses[s][k].text

====
